---- MODULE Spec2Model ----
(***************************************************************************)
(* Alert lifecycle of the helmet dashboard (src/src/App.tsx): the sample   *)
(* handler, the asynchronous arming handler, the escalation-timer callback,*)
(* the user-cancel handler and the cooldown callbacks, as one state         *)
(* machine.  Every step between two awaits of the source is one atomic     *)
(* action (JavaScript runs each continuation to its next await).           *)
(*                                                                         *)
(* Modelling decisions:                                                    *)
(*  - accelerations are integers in milli-g, angular rates in deg/s;       *)
(*    divisions are integer divisions (the source uses IEEE doubles);      *)
(*  - time advances in steps of TickMs; a timer fires in the tick in which *)
(*    its delay elapses, network calls may take any number of ticks;       *)
(*  - React state (activeAccident) is read at its latest value: a render   *)
(*    is committed before the next event is handled;                       *)
(*  - the row id given by the database to the record inserted by the k-th  *)
(*    call of handleAccidentDetected is k;                                 *)
(*  - updates of accident_logs succeed; inserts, the settings lookup and   *)
(*    the notification fetch may fail;                                     *)
(*  - cancelRequested and exitAge are history variables: no action reads  *)
(*    them in a guard.                                                     *)
(***************************************************************************)
EXTENDS Integers, Sequences, FiniteSets

\* ---------------------------------------------------------------- bounds
MaxAlerts == 2       \* calls of handleAccidentDetected explored
MaxSamples == 2      \* samples delivered to handleNewData
WindowSize == 1      \* readings kept by the classifier's MotionHistory
ConnHorizon == 8     \* periods of the connectivity check explored
RestSamples == 50    \* resting samples of the end-to-end scenario
SpikeSamples == 3    \* spike samples of the end-to-end scenario

\* ------------------------------------------------------ program constants
ACC_SENSITIVITY == 16384     \* counts per g
GYRO_SENSITIVITY == 131      \* counts per deg/s
ALPHA_DEN == 10              \* smoothing factor alpha = 1 / ALPHA_DEN
ESCALATION_MS == 30000
COOLDOWN_MS == 5000
MAX_DANGER == 100
STALE_MS == 5000
\* Thresholds of the classifier: impact (milli-g), rotation (deg/s) and the
\* danger at which a verdict counts towards an accident.
IMPACT_MG == 2500
ROTATION_DPS == 300
CONFIRM_DANGER == 70
CHECK_MS == 1000
MILLI == 1000                \* milli-g per g (unit of the model)

TickMs == COOLDOWN_MS

Alerts == 1..MaxAlerts
\* Identifiers the accident_logs table can hand out: one more than the calls
\* explored above, used by the arming-latency runs.
Slots == 1..(MaxAlerts + 1)
NULL == 0

VARIABLES
    prevAccel,          \* prevAccel.current: last smoothed acceleration (milli-g)
    history,            \* detectionService: MotionHistory of the classifier
    nSamples,           \* number of samples handled (bounds the exploration)
    isTriggered,        \* isTriggered.current: the trigger lock
    activeAccident,     \* React state activeAccident ({id, dangerPercentage} or null)
    accidentTimeoutRef, \* accidentTimeoutRef.current: handle of a timer or null
    detected,           \* calls of handleAccidentDetected: position and locals
    accident_logs,      \* table accident_logs, by row id
    timers,             \* escalation timers (setTimeout of line 171), by alert
    emergency,          \* calls of sendEmergencyAlerts: position, by alert
    cancels,            \* calls of handleCancelAccident awaiting their update, by alert
    cooldowns,          \* outstanding unlock timers (lines 202, 215): remaining -> count
    notices,            \* requests sent to send-accident-alert: <<emailType, accidentId>>
    exitAge,            \* time since the last Cancelled/Confirmed exit (-1: none yet)
    cancelRequested,    \* alerts whose cancel button was pressed while Pending, timer not fired
    isConnected,        \* React state isConnected
    lastUpdate,         \* React state lastUpdate (ms, or NoDate for null)
    now,                \* Date.now() (ms)
    checkTimeout,       \* the interval of line 119: ms until it fires next
    fetching,           \* initializeData is awaiting getLatestSensorData
    latestCreatedAt     \* created_at of the latest row of the sample table, or NoDate

vars == <<prevAccel, history, nSamples, isTriggered, activeAccident,
          accidentTimeoutRef, detected, accident_logs, timers, emergency,
          cancels, cooldowns, notices, exitAge, cancelRequested,
          isConnected, lastUpdate, now, checkTimeout, fetching, latestCreatedAt>>

\* The connectivity display.  Nothing on the alert path reads it: Spec and
\* the other alert runs hold it fixed, ConnSpec explores it.
connVars == <<isConnected, lastUpdate, now, checkTimeout, fetching, latestCreatedAt>>

sampleVars == <<prevAccel, history, nSamples>>

\* ------------------------------------------------------------------ values
NoAccident == [id |-> NULL, dangerPercentage |-> 0]

NoRow == [status |-> "none", danger_percentage |-> 0,
          user_responded |-> FALSE, emails_sent |-> FALSE]

NoCall == [pc |-> "unused", dangerPercentage |-> 0, settings |-> "unknown"]

NoTimer == [state |-> "unset", remaining |-> 0]

NoDate == -1

\* Date.now() when the component mounts.
BootMs == 2 * STALE_MS

\* Rows delivered by the sample feed (acc_x, acc_y, acc_z, gyro_x, gyro_y,
\* gyro_z in device counts): the helmet at rest upright (1 g on Z) and the
\* helmet thrown upside down (-9 g on Z).
RestRow == [acc_x |-> 0, acc_y |-> 0, acc_z |-> ACC_SENSITIVITY,
            gyro_x |-> 0, gyro_y |-> 0, gyro_z |-> 0]

InvertedRow == [acc_x |-> 0, acc_y |-> 0, acc_z |-> -9 * ACC_SENSITIVITY,
                gyro_x |-> 0, gyro_y |-> 0, gyro_z |-> 0]

SensorDataRows == {RestRow, InvertedRow}

\* The IEEE not-a-number, which JavaScript arithmetic yields for a field that
\* is undefined: a value outside the range of every count and every
\* converted quantity.  Every arithmetic operation on it yields it and every
\* comparison with it is false.
NaN == -999999999

\* Rows of a 6 g spike, along +X, +Y, +Z and -Z.
SpikeRows ==
    {[RestRow EXCEPT !.acc_z = 0, !.acc_x = 6 * ACC_SENSITIVITY],
     [RestRow EXCEPT !.acc_z = 0, !.acc_y = 6 * ACC_SENSITIVITY],
     [RestRow EXCEPT !.acc_z = 6 * ACC_SENSITIVITY],
     [RestRow EXCEPT !.acc_z = -6 * ACC_SENSITIVITY]}

\* Rows with an undefined acceleration or gyroscope field.
InvalidRows == {[RestRow EXCEPT !.acc_z = NaN], [RestRow EXCEPT !.gyro_x = NaN]}

\* Verdicts the classifier may return for a sample (detectWithHistory).
Verdicts == {[isAccident |-> FALSE, dangerPercentage |-> 0],
             [isAccident |-> FALSE, dangerPercentage |-> 80],
             [isAccident |-> TRUE, dangerPercentage |-> 80]}

\* --------------------------------------------------------- pure functions
lowPassFilter(current, previous) ==
    IF current = NaN \/ previous = NaN
    THEN NaN
    ELSE previous + (current - previous) \div ALPHA_DEN

\* counts / sensitivity, in units of 1 / perUnit.
perSensitivity(counts, perUnit, sensitivity) ==
    IF counts = NaN THEN NaN ELSE (counts * perUnit) \div sensitivity

convertToSensorData(row) ==
    [accelerometer |-> [x |-> perSensitivity(row.acc_x, MILLI, ACC_SENSITIVITY),
                        y |-> perSensitivity(row.acc_y, MILLI, ACC_SENSITIVITY),
                        z |-> perSensitivity(row.acc_z, MILLI, ACC_SENSITIVITY)],
     gyroscope |-> [x |-> perSensitivity(row.gyro_x, 1, GYRO_SENSITIVITY),
                    y |-> perSensitivity(row.gyro_y, 1, GYRO_SENSITIVITY),
                    z |-> perSensitivity(row.gyro_z, 1, GYRO_SENSITIVITY)]]

smoothedAccel(raw, prev) ==
    [x |-> lowPassFilter(raw.accelerometer.x, prev.x),
     y |-> lowPassFilter(raw.accelerometer.y, prev.y),
     z |-> lowPassFilter(raw.accelerometer.z, prev.z)]

\* MotionHistory: append, evicting the oldest reading beyond the window.
addReading(h, acc, gyro) ==
    LET all == Append(h, [acc |-> acc, gyro |-> gyro])
    IN  IF Len(all) > WindowSize THEN Tail(all) ELSE all

reset == << >>

\* A vector all of whose components are numbers.
Finite(v) == v.x # NaN /\ v.y # NaN /\ v.z # NaN

magnitude2(v) == v.x * v.x + v.y * v.y + v.z * v.z

\* A reading whose acceleration magnitude exceeds the impact threshold or
\* whose angular rate exceeds the rotation threshold.
Violent(r) ==
    \/ Finite(r.acc) /\ magnitude2(r.acc) > IMPACT_MG * IMPACT_MG
    \/ Finite(r.gyro) /\ magnitude2(r.gyro) > ROTATION_DPS * ROTATION_DPS

\* Verdicts of a window holding a violent reading: the danger grows with the
\* excess over the threshold, and isAccident needs a danger of at least
\* CONFIRM_DANGER.
ImpactVerdicts ==
    {v \in Verdicts \cup {[isAccident |-> TRUE, dangerPercentage |-> MAX_DANGER]} :
        v.isAccident => v.dangerPercentage >= CONFIRM_DANGER}

\* detectWithHistory: the verdicts possible for a window.  Without a violent
\* reading neither signal contributes: danger 0, no accident.
detectWithHistory(h) ==
    IF \E i \in 1..Len(h) : Violent(h[i])
    THEN ImpactVerdicts
    ELSE {[isAccident |-> FALSE, dangerPercentage |-> 0]}

isUpsideDown(zValue) == zValue # NaN /\ zValue < 0

shouldTrigger(result, upsideDown, active, locked) ==
    (result.isAccident \/ upsideDown) /\ active = NoAccident /\ ~locked

finalDangerIgnoringRollover(upsideDown, result) == result.dangerPercentage

finalDanger(upsideDown, result) ==
    IF upsideDown THEN MAX_DANGER ELSE result.dangerPercentage

\* The first call slot not yet used (calls are numbered in order).
FreeIn(calls) == {c \in calls : detected[c].pc = "unused"}
nextIn(calls) == CHOOSE c \in FreeIn(calls) : \A d \in FreeIn(calls) : c <= d
FreeCalls == FreeIn(Alerts)
nextCall == nextIn(Alerts)

\* setTimeout(() => { isTriggered.current = false }, 5000)
scheduleUnlock(cd) == [cd EXCEPT ![COOLDOWN_MS] = @ + 1]

\* ------------------------------------------------------------------- Init
InitAlert ==
    /\ prevAccel = [x |-> 0, y |-> 0, z |-> MILLI]
    /\ history = << >>
    /\ nSamples = 0
    /\ isTriggered = FALSE
    /\ activeAccident = NoAccident
    /\ accidentTimeoutRef = NULL
    /\ detected = [c \in Slots |-> NoCall]
    /\ accident_logs = [c \in Slots |-> NoRow]
    /\ timers = [c \in Slots |-> NoTimer]
    /\ emergency = [c \in Slots |-> "none"]
    /\ cancels = [c \in Slots |-> 0]
    /\ cooldowns = [t \in {0, COOLDOWN_MS} |-> 0]
    /\ notices = {}
    /\ exitAge = -1
    /\ cancelRequested = {}

\* The component mounts: the effect of lines 57-127 starts initializeData and
\* the interval; rowDate is created_at of the latest row of the table.
InitConnectivity(rowDate) ==
    /\ isConnected = FALSE
    /\ lastUpdate = NoDate
    /\ now = BootMs
    /\ checkTimeout = CHECK_MS
    /\ fetching = TRUE
    /\ latestCreatedAt = rowDate

Init == InitAlert /\ InitConnectivity(NoDate)

\* ---------------------------------------------------------------- actions
\* handleNewData (lines 60-109), with handleAccidentDetected run up to its
\* first await (the insert of lines 135-143 is issued).  The run explores at
\* most limit samples and takes the identifier of the next record from calls.
processSample(newData, result, calls, limit) ==
    LET raw == convertToSensorData(newData)
        smoothed == smoothedAccel(raw, prevAccel)
        upsideDown == isUpsideDown(smoothed.z)
        trigger == shouldTrigger(result, upsideDown, activeAccident, isTriggered)
    IN  /\ nSamples < limit
        /\ trigger => FreeIn(calls) # {}
        /\ nSamples' = nSamples + 1
        /\ prevAccel' = smoothed
        /\ history' = addReading(history, smoothed, raw.gyroscope)
        /\ IF trigger
           THEN /\ isTriggered' = TRUE
                /\ detected' = [detected EXCEPT ![nextIn(calls)] =
                       [pc |-> "insert",
                        dangerPercentage |-> finalDanger(upsideDown, result),
                        settings |-> "unknown"]]
           ELSE UNCHANGED <<isTriggered, detected>>
        /\ UNCHANGED <<activeAccident, accidentTimeoutRef, accident_logs, timers,
                       emergency, cancels, cooldowns, notices, exitAge, cancelRequested>>

handleNewData(newData, result) ==
    processSample(newData, result, Alerts, MaxSamples) /\ UNCHANGED connVars

\* The escalation timer created with the delay of the unlock timer.
startEscalationShort(c) ==
    /\ timers' = [timers EXCEPT ![c] = [state |-> "pending", remaining |-> COOLDOWN_MS]]
    /\ accidentTimeoutRef' = c

\* The timer of lines 171-173 is created and its handle stored.
startEscalation(c) ==
    /\ timers' = [timers EXCEPT ![c] = [state |-> "pending", remaining |-> ESCALATION_MS]]
    /\ accidentTimeoutRef' = c

\* handleAccidentDetected without the check of line 145: a failed insert goes
\* on to the settings lookup.
handleAccidentDetected_insertedUnchecked(c, ok) ==
    /\ detected[c].pc = "insert"
    /\ IF ok
       THEN /\ accident_logs' = [accident_logs EXCEPT ![c] =
                   [status |-> "pending",
                    danger_percentage |-> detected[c].dangerPercentage,
                    user_responded |-> FALSE, emails_sent |-> FALSE]]
            /\ activeAccident' = [id |-> c, dangerPercentage |-> detected[c].dangerPercentage]
       ELSE UNCHANGED <<accident_logs, activeAccident>>
    /\ detected' = [detected EXCEPT ![c].pc = "settings"]
    /\ UNCHANGED <<connVars, sampleVars, isTriggered, accidentTimeoutRef, timers, emergency,
                   cancels, cooldowns, notices, exitAge, cancelRequested>>

\* The insert returns (lines 135-149): on failure the handler returns (line
\* 145, or the catch of line 174); otherwise the row exists, the alert
\* becomes the active one and the settings lookup is issued.
handleAccidentDetected_inserted(c, ok) ==
    /\ detected[c].pc = "insert"
    /\ IF ok
       THEN /\ accident_logs' = [accident_logs EXCEPT ![c] =
                   [status |-> "pending",
                    danger_percentage |-> detected[c].dangerPercentage,
                    user_responded |-> FALSE, emails_sent |-> FALSE]]
            /\ activeAccident' = [id |-> c, dangerPercentage |-> detected[c].dangerPercentage]
            /\ detected' = [detected EXCEPT ![c].pc = "settings"]
       ELSE /\ detected' = [detected EXCEPT ![c].pc = "failed"]
            /\ UNCHANGED <<accident_logs, activeAccident>>
    /\ UNCHANGED <<connVars, sampleVars, isTriggered, accidentTimeoutRef, timers, emergency,
                   cancels, cooldowns, notices, exitAge, cancelRequested>>

\* The settings lookup returns (lines 149-173): with a row the confirmation
\* request is sent; without one the escalation timer is started at once.
handleAccidentDetected_settings(c, settings) ==
    /\ detected[c].pc = "settings"
    /\ IF settings = "row"
       THEN /\ notices' = notices \cup {<<"user_confirmation", c>>}
            /\ detected' = [detected EXCEPT ![c].pc = "fetch", ![c].settings = settings]
            /\ UNCHANGED <<timers, accidentTimeoutRef>>
       ELSE /\ startEscalation(c)
            /\ detected' = [detected EXCEPT ![c].pc = "armed", ![c].settings = settings]
            /\ UNCHANGED notices
    /\ UNCHANGED <<connVars, sampleVars, isTriggered, activeAccident, accident_logs, emergency,
                   cancels, cooldowns, exitAge, cancelRequested>>

\* The confirmation fetch settles (lines 153-176): resolved (any HTTP status)
\* starts the escalation timer; rejected goes to the catch of line 174.
handleAccidentDetected_fetched(c, resolved) ==
    /\ detected[c].pc = "fetch"
    /\ IF resolved
       THEN /\ startEscalation(c)
            /\ detected' = [detected EXCEPT ![c].pc = "armed"]
       ELSE /\ detected' = [detected EXCEPT ![c].pc = "caught"]
            /\ UNCHANGED <<timers, accidentTimeoutRef>>
    /\ UNCHANGED <<connVars, sampleVars, isTriggered, activeAccident, accident_logs, emergency,
                   cancels, cooldowns, notices, exitAge, cancelRequested>>

\* Lines 199-202: the end of sendEmergencyAlerts.
sendEmergencyAlerts_finish ==
    /\ activeAccident' = NoAccident
    /\ cooldowns' = scheduleUnlock(cooldowns)

\* The escalation timer fires (lines 171-173) and sendEmergencyAlerts runs
\* to its first await (lines 179-196), or to its end without settings.
sendEmergencyAlerts(c) ==
    /\ timers[c].state = "pending"
    /\ timers[c].remaining = 0
    /\ timers' = [timers EXCEPT ![c].state = "fired"]
    /\ IF detected[c].settings = "row"
       THEN /\ notices' = notices \cup {<<"emergency_alert", c>>}
            /\ emergency' = [emergency EXCEPT ![c] = "fetch"]
            /\ UNCHANGED <<activeAccident, cooldowns>>
       ELSE /\ sendEmergencyAlerts_finish
            /\ emergency' = [emergency EXCEPT ![c] = "done"]
            /\ UNCHANGED notices
    /\ UNCHANGED <<connVars, sampleVars, isTriggered, accidentTimeoutRef, detected, accident_logs,
                   cancels, exitAge, cancelRequested>>

\* The emergency fetch settles (lines 182-197): resolved issues the update
\* of line 197; rejected rejects the promise of the timer callback.
sendEmergencyAlerts_fetched(c, resolved) ==
    /\ emergency[c] = "fetch"
    /\ emergency' = [emergency EXCEPT ![c] = IF resolved THEN "update" ELSE "rejected"]
    /\ UNCHANGED <<connVars, sampleVars, isTriggered, activeAccident, accidentTimeoutRef, detected,
                   accident_logs, timers, cancels, cooldowns, notices, exitAge, cancelRequested>>

\* The update of line 197 returns; lines 199-202 run.
sendEmergencyAlerts_updated(c) ==
    /\ emergency[c] = "update"
    /\ accident_logs' = [accident_logs EXCEPT ![c].status = "confirmed",
                                              ![c].emails_sent = TRUE]
    /\ exitAge' = 0
    /\ sendEmergencyAlerts_finish
    /\ emergency' = [emergency EXCEPT ![c] = "done"]
    /\ UNCHANGED <<connVars, sampleVars, isTriggered, accidentTimeoutRef, detected, timers,
                   cancels, notices, cancelRequested>>

\* clearTimeout(handle): a timer still pending is removed; otherwise no effect.
clearTimeout(tm, handle) ==
    IF tm[handle].state = "pending" THEN [tm EXCEPT ![handle].state = "cleared"] ELSE tm

\* The user presses the cancel button of the alert shown (rendered while
\* activeAccident is set, lines 222-228); handleCancelAccident runs to its
\* await (lines 205-209).  With the guard of line 206 false nothing happens.
handleCancelAccident ==
    /\ activeAccident # NoAccident
    /\ cancelRequested' =
          IF /\ accident_logs[activeAccident.id].status = "pending"
             /\ timers[activeAccident.id].state \in {"unset", "pending"}
          THEN cancelRequested \cup {activeAccident.id}
          ELSE cancelRequested
    /\ IF accidentTimeoutRef # NULL
       THEN /\ timers' = clearTimeout(timers, accidentTimeoutRef)
            /\ accidentTimeoutRef' = NULL
            /\ cancels' = [cancels EXCEPT ![activeAccident.id] = @ + 1]
       ELSE UNCHANGED <<timers, accidentTimeoutRef, cancels>>
    /\ UNCHANGED <<connVars, sampleVars, isTriggered, activeAccident, detected, accident_logs,
                   emergency, cooldowns, notices, exitAge>>

\* The update of line 209 returns; lines 210-215 run.
handleCancelAccident_updated(c) ==
    /\ cancels[c] > 0
    /\ cancels' = [cancels EXCEPT ![c] = @ - 1]
    /\ accident_logs' = [accident_logs EXCEPT ![c].status = "cancelled",
                                              ![c].user_responded = TRUE]
    /\ exitAge' = 0
    /\ activeAccident' = NoAccident
    /\ history' = reset
    /\ cooldowns' = scheduleUnlock(cooldowns)
    /\ UNCHANGED <<connVars, prevAccel, nSamples, isTriggered, accidentTimeoutRef, detected,
                   timers, emergency, notices, cancelRequested>>

\* An unlock timer fires (lines 202, 215).
unlock ==
    /\ cooldowns[0] > 0
    /\ cooldowns' = [cooldowns EXCEPT ![0] = @ - 1]
    /\ isTriggered' = FALSE
    /\ UNCHANGED <<connVars, sampleVars, activeAccident, accidentTimeoutRef, detected,
                   accident_logs, timers, emergency, cancels, notices, exitAge, cancelRequested>>

\* Time passes by TickMs; no timer is kept waiting past its delay.
TimerDue ==
    \/ cooldowns[0] > 0
    \/ \E c \in Slots : timers[c].state = "pending" /\ timers[c].remaining = 0

Running ==
    \/ cooldowns[COOLDOWN_MS] > 0
    \/ \E c \in Slots : timers[c].state = "pending"
    \/ exitAge \in 0..(COOLDOWN_MS - 1)

Tick ==
    /\ ~TimerDue
    /\ Running
    /\ timers' = [c \in Slots |->
                    IF timers[c].state = "pending"
                    THEN [timers[c] EXCEPT !.remaining = @ - TickMs]
                    ELSE timers[c]]
    /\ cooldowns' = [t \in {0, COOLDOWN_MS} |-> IF t = 0 THEN cooldowns[COOLDOWN_MS] ELSE 0]
    /\ exitAge' = IF exitAge < 0 THEN exitAge
                  ELSE IF exitAge + TickMs > COOLDOWN_MS THEN COOLDOWN_MS
                  ELSE exitAge + TickMs
    /\ UNCHANGED <<connVars, sampleVars, isTriggered, activeAccident, accidentTimeoutRef, detected,
                   accident_logs, emergency, cancels, notices, cancelRequested>>

Next ==
    \/ \E newData \in SensorDataRows, result \in Verdicts : handleNewData(newData, result)
    \/ \E c \in Alerts, ok \in BOOLEAN : handleAccidentDetected_inserted(c, ok)
    \/ \E c \in Alerts, s \in {"row", "none"} : handleAccidentDetected_settings(c, s)
    \/ \E c \in Alerts, r \in BOOLEAN : handleAccidentDetected_fetched(c, r)
    \/ \E c \in Alerts : sendEmergencyAlerts(c)
    \/ \E c \in Alerts, r \in BOOLEAN : sendEmergencyAlerts_fetched(c, r)
    \/ \E c \in Alerts : sendEmergencyAlerts_updated(c)
    \/ handleCancelAccident
    \/ \E c \in Alerts : handleCancelAccident_updated(c)
    \/ unlock
    \/ Tick

Spec == Init /\ [][Next]_vars

\* Runs without failures, for the latency of the awaits of arming: every
\* insert, lookup and fetch succeeds, but each may take arbitrarily long.
\* One more sample and one more record than in Spec are explored.
LatencySamples == MaxSamples + 1

handleNewData_delayed(result) ==
    processSample(RestRow, result, Slots, LatencySamples) /\ UNCHANGED connVars

LatencyNext ==
    \/ \E result \in Verdicts : handleNewData_delayed(result)
    \/ \E c \in Slots : handleAccidentDetected_inserted(c, TRUE)
    \/ \E c \in Slots : handleAccidentDetected_settings(c, "row")
    \/ \E c \in Slots : handleAccidentDetected_fetched(c, TRUE)
    \/ \E c \in Slots : sendEmergencyAlerts(c)
    \/ \E c \in Slots : sendEmergencyAlerts_fetched(c, TRUE)
    \/ \E c \in Slots : sendEmergencyAlerts_updated(c)
    \/ handleCancelAccident
    \/ \E c \in Slots : handleCancelAccident_updated(c)
    \/ unlock
    \/ Tick

LatencySpec == Init /\ [][LatencyNext]_vars

\* The feed also delivers rows with undefined fields.
handleInvalidData(newData, result) == handleNewData(newData, result)

InvalidFeedNext ==
    \/ Next
    \/ \E newData \in InvalidRows, result \in Verdicts : handleInvalidData(newData, result)

InvalidFeedSpec == Init /\ [][InvalidFeedNext]_vars

\* ------------------------------------------------------------ connectivity
\* Lines 76-77 of handleNewData, and the effect of lines 57-127 running again
\* because lastUpdate (a new Date object) changed: the interval is recreated
\* and initializeData pulls the latest row again.
setConnectivity(created_at) ==
    /\ isConnected' = TRUE
    /\ lastUpdate' = created_at
    /\ checkTimeout' = CHECK_MS
    /\ fetching' = TRUE

\* The device inserts a row now and the subscription of line 114 delivers it.
handleNewData_subscribed(result) ==
    /\ processSample(RestRow, result, Alerts, MaxSamples)
    /\ setConnectivity(now)
    /\ latestCreatedAt' = now
    /\ UNCHANGED now

\* getLatestSensorData returns (lines 111-113): the latest row of the table,
\* whatever its age, is handled; without a row nothing happens.
initializeData_latest(result) ==
    /\ fetching
    /\ IF latestCreatedAt = NoDate
       THEN /\ fetching' = FALSE
            /\ UNCHANGED <<isConnected, lastUpdate, checkTimeout, sampleVars,
                           isTriggered, detected, activeAccident, accidentTimeoutRef,
                           accident_logs, timers, emergency, cancels, cooldowns,
                           notices, exitAge, cancelRequested>>
       ELSE /\ processSample(RestRow, result, Alerts, MaxSamples)
            /\ setConnectivity(latestCreatedAt)
    /\ UNCHANGED <<now, latestCreatedAt>>

\* The interval of lines 119-121 fires.
checkTimeout_fired ==
    /\ checkTimeout = 0
    /\ isConnected' = IF lastUpdate # NoDate /\ now - lastUpdate > STALE_MS
                      THEN FALSE
                      ELSE isConnected
    /\ checkTimeout' = CHECK_MS
    /\ UNCHANGED <<lastUpdate, now, fetching, latestCreatedAt, sampleVars,
                   isTriggered, detected, activeAccident, accidentTimeoutRef,
                   accident_logs, timers, emergency, cancels, cooldowns,
                   notices, exitAge, cancelRequested>>

\* One period of the interval passes.
ConnTick ==
    /\ checkTimeout > 0
    /\ now < BootMs + ConnHorizon * CHECK_MS
    /\ now' = now + CHECK_MS
    /\ checkTimeout' = checkTimeout - CHECK_MS
    /\ UNCHANGED <<isConnected, lastUpdate, fetching, latestCreatedAt, sampleVars,
                   isTriggered, detected, activeAccident, accidentTimeoutRef,
                   accident_logs, timers, emergency, cancels, cooldowns,
                   notices, exitAge, cancelRequested>>

\* On mount the table is empty, or its latest row is old, or it is of now.
ConnInit == InitAlert /\ \E rowDate \in {NoDate, 0, BootMs} : InitConnectivity(rowDate)

ConnNext ==
    \/ \E result \in Verdicts : handleNewData_subscribed(result)
    \/ \E result \in Verdicts : initializeData_latest(result)
    \/ checkTimeout_fired
    \/ ConnTick

ConnSpec == ConnInit /\ [][ConnNext]_vars

\* ------------------------------------------------- the end-to-end scenario
\* The verdicts of the classifier for the window after this row is added
\* (lines 80-85).
classify(newData) ==
    LET raw == convertToSensorData(newData)
    IN  detectWithHistory(addReading(history, smoothedAccel(raw, prevAccel), raw.gyroscope))

\* RestSamples resting rows are fed, then SpikeSamples spike rows.
feedRest ==
    /\ \E result \in classify(RestRow) :
          processSample(RestRow, result, Alerts, RestSamples)
    /\ UNCHANGED connVars

feedSpike(newData) ==
    /\ nSamples >= RestSamples
    /\ \E result \in classify(newData) :
          processSample(newData, result, Alerts, RestSamples + SpikeSamples)
    /\ UNCHANGED connVars

ScenarioNext ==
    \/ feedRest
    \/ \E newData \in SpikeRows : feedSpike(newData)
    \/ \E c \in Alerts : handleAccidentDetected_inserted(c, TRUE)
    \/ \E c \in Alerts : handleAccidentDetected_settings(c, "row")
    \/ \E c \in Alerts : handleAccidentDetected_fetched(c, TRUE)

ScenarioSpec == Init /\ [][ScenarioNext]_vars

\* ------------------------------------------------------------- vocabulary
Pending(c) == accident_logs[c].status = "pending"

MarkedCancelled(c) == accident_logs[c].user_responded

MarkedConfirmed(c) == accident_logs[c].emails_sent

EmergencyNotice(c) == <<"emergency_alert", c>> \in notices

Arming(c) == detected[c].pc \in {"insert", "settings", "fetch"}

\* Something is still outstanding that will change the status of record c
\* without any further action of the user.
Outstanding(c) ==
    \/ Arming(c)
    \/ timers[c].state = "pending"
    \/ emergency[c] \in {"fetch", "update"}
    \/ cancels[c] > 0

\* The step creates an unlock timer.
UnlockScheduled == cooldowns'[COOLDOWN_MS] = cooldowns[COOLDOWN_MS] + 1

\* The step is handleNewData closing the lock and calling handleAccidentDetected.
Arms == ~isTriggered /\ isTriggered'

\* The step calls handleAccidentDetected with this danger percentage.
ArmsWith(danger) ==
    \E c \in Alerts : /\ detected[c].pc = "unused"
                      /\ detected'[c].pc = "insert"
                      /\ detected'[c].dangerPercentage = danger

\* The smoothed Z acceleration a row produces in the current state.
conditionedZ(newData) == smoothedAccel(convertToSensorData(newData), prevAccel).z

\* ------------------------------------------------------------------ claims

\* C1: under any interleaving of the escalation-timer callback and the
\* user-cancel action, no record is both marked Cancelled and marked
\* Confirmed, and no emergency notice is emitted for a record already marked
\* Cancelled.
C1_OneOutcome ==
    /\ [](\A c \in Alerts : ~(MarkedCancelled(c) /\ MarkedConfirmed(c)))
    /\ [][\A c \in Alerts :
            (~EmergencyNotice(c) /\ <<"emergency_alert", c>> \in notices')
            => ~MarkedCancelled(c)]_vars

\* C2: every record created Pending eventually becomes Cancelled or
\* Confirmed; stated so that a finite run refutes it: a Pending record always
\* has its arming, its escalation timer, its escalation callback or a cancel
\* outstanding.
C2_PendingNeverStuck ==
    \A c \in Alerts : Pending(c) => Outstanding(c)

\* C3: at most one record has status Pending.
C3_AtMostOnePending ==
    Cardinality({c \in Alerts : Pending(c)}) <= 1

\* C4: when the insert of the record fails, the trigger lock is not left
\* closed.
C4_LockOpenAfterInsertFailure ==
    [][\A c \in Alerts :
          (detected[c].pc = "insert" /\ detected'[c].pc = "failed") => ~isTriggered']_vars

\* C5: a failed confirmation dispatch still starts the 30-second timer, and
\* a failed emergency dispatch still clears the active alert and schedules
\* the reopening of the lock.
C5_DispatchFailureProceeds ==
    [][\A c \in Alerts :
          /\ (detected[c].pc = "fetch" /\ detected'[c].pc = "caught")
                => timers'[c] = [state |-> "pending", remaining |-> ESCALATION_MS]
          /\ (emergency[c] = "fetch" /\ emergency'[c] = "rejected")
                => (activeAccident' = NoAccident /\ UnlockScheduled)]_vars

\* C6: a cancel pressed while the record is Pending and its timer has not
\* fired is honoured: the timer never fires for that record, the record is
\* (being) marked Cancelled with user_responded, and it is not ignored.
C6_CancelHonoured ==
    \A c \in cancelRequested :
        /\ timers[c].state \in {"unset", "cleared"}
        /\ \/ cancels[c] > 0
           \/ accident_logs[c].status = "cancelled" /\ accident_logs[c].user_responded

\* C7: when the escalation callback of a record that was not cancelled
\* completes, the record is Confirmed with emails_sent, its emergency notice
\* has been emitted, the active alert is cleared and the reopening of the
\* lock is scheduled, whatever the settings lookup returned.
C7_EscalationConfirms ==
    [][\A c \in Alerts :
          (/\ emergency[c] # "done" /\ emergency'[c] = "done"
           /\ c \notin cancelRequested /\ cancels[c] = 0 /\ ~MarkedCancelled(c))
          => /\ accident_logs'[c].status = "confirmed"
             /\ accident_logs'[c].emails_sent
             /\ <<"emergency_alert", c>> \in notices'
             /\ activeAccident' = NoAccident
             /\ UnlockScheduled]_vars

\* C8 as stated: every sample whose conditioned Z acceleration is negative
\* makes the controller arm with dangerPercentage 100.
C8_AnyRolloverArms ==
    [][\A newData \in SensorDataRows, result \in Verdicts :
          (handleNewData(newData, result) /\ conditionedZ(newData) < 0)
          => ArmsWith(MAX_DANGER)]_vars

\* C8 as amended: a sample whose conditioned Z acceleration is negative,
\* handled while the lock is open and no alert is active, closes the lock
\* and requests a record with dangerPercentage 100 whatever the verdict of
\* the classifier, and a record is created with the danger requested.
C8_RolloverArmsWhenIdle ==
    [][/\ \A newData \in SensorDataRows, result \in Verdicts :
             (/\ handleNewData(newData, result)
              /\ conditionedZ(newData) < 0
              /\ ~isTriggered /\ activeAccident = NoAccident)
             => (isTriggered' /\ ArmsWith(MAX_DANGER))
       /\ \A c \in Alerts :
             (accident_logs[c].status = "none" /\ accident_logs'[c].status # "none")
             => /\ accident_logs'[c].status = "pending"
                /\ accident_logs'[c].danger_percentage = detected[c].dangerPercentage]_vars

\* C8 witness: a record requested by a rollover sample has been created
\* with danger 100 although no verdict carries that danger.
C8_Witness ==
    /\ \A v \in Verdicts : v.dangerPercentage < MAX_DANGER
    /\ \E c \in Alerts : /\ Pending(c)
                         /\ accident_logs[c].danger_percentage = MAX_DANGER
                         /\ prevAccel.z < 0

\* C9: no alert is armed less than the cooldown after an exit through
\* Cancelled or Confirmed, and a qualifying sample handled once the cooldown
\* has elapsed, with no alert in flight, arms.
C9_CooldownRespected ==
    [][/\ Arms => exitAge \notin 0..(COOLDOWN_MS - 1)
       /\ \A newData \in SensorDataRows, result \in Verdicts :
             (/\ handleNewData(newData, result)
              /\ (result.isAccident \/ conditionedZ(newData) < 0)
              /\ exitAge >= COOLDOWN_MS /\ ~TimerDue
              /\ \A c \in Alerts : ~Arming(c) /\ ~Pending(c))
             => Arms]_vars

\* C10: the history of the classifier is cleared on every exit of a record
\* from Pending, the Cancelled exit and the Confirmed exit alike.
C10_HistoryClearedOnExit ==
    [][\A c \in Alerts :
          (Pending(c) /\ accident_logs'[c].status \in {"cancelled", "confirmed"})
          => history' = << >>]_vars

\* The insert of call c failed: the call has returned from its insert and
\* no row exists.
InsertFailed(c) ==
    detected[c].pc \notin {"unused", "insert"} /\ accident_logs[c].status = "none"

\* C11: after a failed insert the controller neither notifies nor arms for
\* that event: no confirmation notice, no escalation timer, no active-alert
\* reference, and never an emergency notice.
C11_NoArmingAfterInsertFailure ==
    \A c \in Alerts :
        InsertFailed(c)
        => /\ detected[c].pc = "failed"
           /\ <<"user_confirmation", c>> \notin notices
           /\ <<"emergency_alert", c>> \notin notices
           /\ timers[c].state = "unset"
           /\ emergency[c] = "none"
           /\ activeAccident.id # c
           /\ accidentTimeoutRef # c

\* C11 witness: after an earlier alert has exited, the insert of a later
\* event has failed.
C11_Witness ==
    \E c, d \in Alerts :
        /\ d < c
        /\ accident_logs[d].status \in {"cancelled", "confirmed"}
        /\ InsertFailed(c)

ConfirmationNotice(c) == <<"user_confirmation", c>> \in notices

RecordCreated(c) == accident_logs[c].status # "none"

C12_InvalidSampleDropped ==
    /\ [][\A newData \in InvalidRows, result \in Verdicts :
            handleInvalidData(newData, result)
            => UNCHANGED <<prevAccel, history, isTriggered, activeAccident,
                           accidentTimeoutRef, detected, accident_logs, timers>>]_vars
    /\ [][\A newData \in SensorDataRows, result \in Verdicts :
            handleNewData(newData, result) => Finite(prevAccel')]_vars

\* C13: the feed is reported live if and only if the latest sample is at
\* most 5000 ms old; the period of the check (1000 ms) is allowed for its
\* polling.
C13_LiveIffFresh ==
    /\ isConnected => (lastUpdate # NoDate /\ now - lastUpdate <= STALE_MS + CHECK_MS)
    /\ (lastUpdate # NoDate /\ now - lastUpdate <= STALE_MS) => isConnected

\* C14: once the resting samples and the three 6 g spike samples have been
\* fed through the conditioner, handleAccidentDetected has been called with
\* a danger percentage of at least 90 (the record it inserts is Pending).
C14_SpikesArm ==
    nSamples = RestSamples + SpikeSamples
    => \E c \in Alerts : detected[c].pc # "unused" /\ detected[c].dangerPercentage >= 90

\* The step delivers a sample to handleNewData.
SampleStep == nSamples' = nSamples + 1

\* C15: while handleAccidentDetected is awaiting the insert, the settings
\* lookup or the confirmation fetch, an arriving sample can always be
\* delivered, it is conditioned and appended to the classifier history, and
\* it starts no further call of handleAccidentDetected (no second record).
C15_ArmingNeverBlocksNorRearms ==
    /\ [](\A b \in Slots :
            (Arming(b) /\ nSamples < LatencySamples)
            => ENABLED (\E result \in Verdicts : handleNewData_delayed(result)))
    /\ [][\A b \in Slots :
            (Arming(b) /\ SampleStep)
            => /\ history' # << >>
               /\ history'[Len(history')].acc = prevAccel'
               /\ \A c \in Slots : detected[c].pc = "unused" => detected'[c].pc = "unused"]_vars

\* The step is a step of the escalation callback of alert a: its timer
\* fires, or one of the awaits of its sendEmergencyAlerts returns.
EscalationCallbackStep(a) ==
    \/ timers[a].state = "pending" /\ timers'[a].state = "fired"
    \/ emergency'[a] # emergency[a]

\* Record b is Pending and no callback of b itself has scheduled an unlock.
PendingUnexited(b) == Pending(b) /\ emergency[b] # "done"

\* C17: a callback belonging to alert a is a no-op for every other alert b:
\* a step of a's escalation callback neither clears the active-alert
\* reference while it refers to b nor changes b's record, and the lock is
\* not reopened while b is Pending and has scheduled no unlock of its own.
C17_StaleCallbackNoOp ==
    /\ [][\A a, b \in Alerts :
            (a # b /\ EscalationCallbackStep(a))
            => /\ activeAccident.id = b => activeAccident' = activeAccident
               /\ accident_logs'[b] = accident_logs[b]]_vars
    /\ [][(isTriggered /\ ~isTriggered') => \A b \in Alerts : ~PendingUnexited(b)]_vars

InFlight(c) == Arming(c) \/ Pending(c)

\* C18: whenever an alert is in flight (arming, or its record Pending) the
\* trigger lock is closed.
C18_LockClosedInFlight ==
    \A c \in Alerts : InFlight(c) => isTriggered

\* C19: at most one escalation timer is outstanding, and a non-null
\* accidentTimeoutRef held while an alert is active refers to the
\* not-yet-fired escalation timer of that alert.
C19_TimerRefCurrent ==
    /\ Cardinality({c \in Alerts : timers[c].state = "pending"}) <= 1
    /\ (activeAccident # NoAccident /\ accidentTimeoutRef # NULL)
         => /\ accidentTimeoutRef = activeAccident.id
            /\ timers[accidentTimeoutRef].state = "pending"

TypeOK ==
    /\ isTriggered \in BOOLEAN
    /\ nSamples \in Nat
    /\ Len(history) <= WindowSize
    /\ accidentTimeoutRef \in {NULL} \cup Slots
    /\ activeAccident.id \in {NULL} \cup Slots
    /\ \A c \in Slots :
         /\ timers[c].remaining \in 0..ESCALATION_MS
         /\ emergency[c] \in {"none", "fetch", "update", "rejected", "done"}
         /\ accident_logs[c].status \in {"none", "pending", "confirmed", "cancelled"}
====
